---- MODULE Spec2Model ----
(***************************************************************************)
(* A model of MotionSegment (src/unnamed/part_000): the constructor with   *)
(* its validation, the four evaluation functions of the six segment types, *)
(* and solveLinearSystem.                                                  *)
(*                                                                         *)
(* A JavaScript number is modelled as an exact extended rational <<n, d>>  *)
(* in lowest terms with d >= 0: d > 0 is the real n/d, <<1,0>> is          *)
(* +Infinity, <<-1,0>> is -Infinity and <<0,0>> is NaN.  Arithmetic        *)
(* follows IEEE 754 on the special values and is exact on the reals (no    *)
(* rounding; the sign of zero is not tracked).  undefined is <<>>.         *)
(***************************************************************************)
EXTENDS Integers, Sequences, FiniteSets, TLC

VARIABLES
    opts,   \* the options of the last constructor call
    seg,    \* the instance it returned, Undef if it threw or none was made
    err,    \* the message of the Error the last call threw, "" if none
    op,     \* the last operation
    tq,     \* the time passed to the last evaluation
    res,    \* what the last evaluation returned
    derived, \* how many derivations (parameter sets, solver calls) the last call made
    sM, sb, \* solveLinearSystem: its arguments
    sA,     \*   the augmented matrix A
    si,     \*   the number of pivot columns done
    sp,     \*   the row the last pivot search selected
    sx      \*   the vector returned

segVars   == <<opts, seg, err, tq, res, derived>>
solveVars == <<sM, sb, sA, si, sp, sx>>
vars      == <<opts, seg, err, op, tq, res, sM, sb, sA, si, sp, sx>>

(***************************************************************************)
(* Numbers                                                                 *)
(***************************************************************************)
Undef == <<>>
NaN   == <<0, 0>>
PInf  == <<1, 0>>
NInf  == <<-1, 0>>

AbsI(n) == IF n < 0 THEN -n ELSE n
SgnI(n) == IF n < 0 THEN -1 ELSE IF n > 0 THEN 1 ELSE 0

RECURSIVE Gcd(_, _)
Gcd(a, b) == IF b = 0 THEN a ELSE Gcd(b, a % b)

\* the number n/d in lowest terms; n/0 is an infinity or NaN
NormBy(n, d, g) ==
    IF d < 0 THEN <<-(n \div g), -(d \div g)>> ELSE <<n \div g, d \div g>>

Norm(n, d) ==
    IF d = 0 THEN <<SgnI(n), 0>> ELSE NormBy(n, d, Gcd(AbsI(n), AbsI(d)))

Num(n)    == <<n, 1>>
Frac(n, d) == Norm(n, d)
Zero == Num(0)
One  == Num(1)
Two  == Num(2)
Half == Frac(1, 2)

IsNumber(x) == x # Undef                 \* typeof x === 'number'
isNaN(x)    == x = Undef \/ x = NaN      \* isNaN(undefined) is true
IsFinite(x) == x # Undef /\ x[2] > 0
Sgn(x)      == SgnI(x[1])

Neg(x) == <<-x[1], x[2]>>
Abs(x) == <<AbsI(x[1]), x[2]>>

\* the sum of two reals whose denominators have the common divisor g
AddBy(x, y, g) ==
    Norm(x[1] * (y[2] \div g) + y[1] * (x[2] \div g), (x[2] \div g) * y[2])

\* x + y
Add(x, y) ==
    IF x = NaN \/ y = NaN THEN NaN
    ELSE IF x[2] = 0 THEN (IF y[2] = 0 /\ y # x THEN NaN ELSE x)
    ELSE IF y[2] = 0 THEN y
    ELSE AddBy(x, y, Gcd(x[2], y[2]))

Sub(x, y) == Add(x, Neg(y))

\* the product of two reals, cancelling g1 and g2 across the fractions
MulBy(x, y, g1, g2) ==
    <<(x[1] \div g1) * (y[1] \div g2), (x[2] \div g2) * (y[2] \div g1)>>

\* x * y
Mul(x, y) ==
    IF x = NaN \/ y = NaN THEN NaN
    ELSE IF x[2] = 0 \/ y[2] = 0 THEN <<Sgn(x) * Sgn(y), 0>>
    ELSE MulBy(x, y, Gcd(AbsI(x[1]), y[2]), Gcd(AbsI(y[1]), x[2]))

\* x / y
Div(x, y) ==
    IF x = NaN \/ y = NaN THEN NaN
    ELSE IF x[2] = 0 THEN (IF y[2] = 0 THEN NaN
                           ELSE <<x[1] * (IF Sgn(y) < 0 THEN -1 ELSE 1), 0>>)
    ELSE IF y[2] = 0 THEN Zero
    ELSE IF y[1] = 0 THEN <<Sgn(x), 0>>
    ELSE Mul(x, <<SgnI(y[1]) * y[2], AbsI(y[1])>>)

\* x < y  (false when either is NaN)
Lt(x, y) ==
    IF x = NaN \/ y = NaN THEN FALSE
    ELSE IF x[2] = 0 \/ y[2] = 0
         THEN (IF x[2] = 0 THEN x[1] ELSE 0) < (IF y[2] = 0 THEN y[1] ELSE 0)
         ELSE x[1] * y[2] < y[1] * x[2]

Gt(x, y) == Lt(y, x)
Ge(x, y) == x # NaN /\ y # NaN /\ ~Lt(x, y)

\* Math.min(x, y), Math.max(x, y): NaN if either is NaN
Min(x, y) == IF x = NaN \/ y = NaN THEN NaN ELSE IF Lt(y, x) THEN y ELSE x
Max(x, y) == IF x = NaN \/ y = NaN THEN NaN ELSE IF Lt(x, y) THEN y ELSE x

\* Math.pow(x, k) and x ** k for an integer k >= 0; pow(x, 0) is 1 for every x
RECURSIVE Pow(_, _)
Pow(x, k) == IF k = 0 THEN One ELSE Mul(x, Pow(x, k - 1))

\* a || b: a falsy number is replaced like a missing one
CoalesceFalsy(a, b) == IF a = Undef \/ a = Zero \/ a = NaN THEN b ELSE a

\* a ?? b
Coalesce(a, b) == IF a = Undef THEN b ELSE a

\* const x = v, then the code F that reads x: v is evaluated once
Local(v, F(_)) == F(v)

(***************************************************************************)
(* solveLinearSystem: Gauss-Jordan elimination with partial pivoting on    *)
(* the augmented matrix A = [M | b].  Rows and columns are numbered from 1 *)
(* here and from 0 in the source.                                          *)
(***************************************************************************)
\* const A = M.map((row, i) => [...row, b[i]])
Augment(M, b) == [r \in 1..Len(M) |-> Append(M[r], b[r])]

\* the pivot search: the first row k >= i with the largest |A[k][i]|
RECURSIVE MaxRowFrom(_, _, _, _)
MaxRowFrom(A, i, k, maxRow) ==
    IF k > Len(A) THEN maxRow
    ELSE MaxRowFrom(A, i, k + 1,
                    IF Gt(Abs(A[k][i]), Abs(A[maxRow][i])) THEN k ELSE maxRow)

\* the pivot search left out: the pivot is taken from row i as it stands
MaxRowNoPivot(A, i) == i

MaxRow(A, i) == MaxRowFrom(A, i, i + 1, i)

\* [A[i], A[maxRow]] = [A[maxRow], A[i]]
SwapRows(A, i, m) == [A EXCEPT ![i] = A[m], ![m] = A[i]]

\* for (j ...) A[i][j] /= factor, with factor = A[i][i] read before the loop
NormalizeRow(A, i) ==
    LET factor == A[i][i]
    IN  [A EXCEPT ![i] = [j \in 1..Len(A[i]) |-> Div(A[i][j], factor)]]

\* for (k ...) if (k !== i) A[k][j] -= A[k][i] * A[i][j]
EliminateColumn(A, i) ==
    [k \in 1..Len(A) |->
        IF k = i THEN A[i]
        ELSE LET coeff == A[k][i]
             IN  [j \in 1..Len(A[k]) |-> Sub(A[k][j], Mul(coeff, A[i][j]))]]

\* one iteration of the loop over the pivot columns
PivotStep(A, i) == EliminateColumn(NormalizeRow(SwapRows(A, i, MaxRow(A, i)), i), i)

RECURSIVE Reduce(_, _, _)
Reduce(A, i, n) == IF i > n THEN A ELSE Reduce(PivotStep(A, i), i + 1, n)

\* return A.map(row => row[n])
LastColumn(A, n) == [r \in 1..Len(A) |-> A[r][n + 1]]

solveLinearSystem(M, b) ==
    LET n == Len(b)
    IN  LastColumn(Reduce(Augment(M, b), 1, n), n)

(***************************************************************************)
(* MotionSegmentOptions and validateOptions                                *)
(***************************************************************************)
\* segmentType: the six recognized tags; "" stands for a missing (falsy) tag
SegmentTypes == {"constant", "triangular", "trapezoidal", "s-curve",
                 "polynomial", "jerk-limited"}

NoError == ""

MkOpts(t0, t1, d, v0, vf, a0, af, j0, jf, ty, cp) ==
    [startTime |-> t0, endTime |-> t1, distance |-> d, startVelocity |-> v0,
     endVelocity |-> vf, startAccel |-> a0, endAccel |-> af, startJerk |-> j0,
     endJerk |-> jf, segmentType |-> ty, cruisePercentage |-> cp]

\* the checks of validateOptions, in the order of the source
BadTimeType(o)          == ~IsNumber(o.startTime) \/ ~IsNumber(o.endTime)
BadDistanceType(o)      == ~IsNumber(o.distance) \/ isNaN(o.distance)
BadStartVelocityType(o) == ~IsNumber(o.startVelocity) \/ isNaN(o.startVelocity)
MissingSegmentType(o)   == o.segmentType = ""

\* the interval check with > in place of >=
BadIntervalStrict(o) == Gt(o.startTime, o.endTime)

BadInterval(o)           == Ge(o.startTime, o.endTime)
NegativeDistance(o)      == Lt(o.distance, Zero)
NegativeStartVelocity(o) == Lt(o.startVelocity, Zero)
ConstantEndVelocity(o)   == o.segmentType = "constant" /\ o.endVelocity # Undef
NegativeEndVelocity(o)   ==
    o.segmentType # "constant" /\ o.endVelocity # Undef /\ Lt(o.endVelocity, Zero)
JerkLimitedNoAccel(o) ==
    o.segmentType = "jerk-limited" /\ (o.startAccel = Undef \/ o.endAccel = Undef)

\* the jerk check failing only when both jerks are absent
JerkLimitedNoJerkBoth(o) ==
    o.segmentType = "jerk-limited" /\ (o.startJerk = Undef /\ o.endJerk = Undef)

JerkLimitedNoJerk(o) ==
    o.segmentType = "jerk-limited" /\ (o.startJerk = Undef \/ o.endJerk = Undef)
BadCruisePercentage(o) ==
    o.segmentType = "trapezoidal" /\ o.cruisePercentage # Undef
        /\ (Lt(o.cruisePercentage, Zero) \/ Gt(o.cruisePercentage, One))

\* validateOptions with the jerk-limited jerks tested before the accelerations
validateOptionsJerksFirst(o) ==
    IF BadTimeType(o) THEN "startTime and endTime must be numbers"
    ELSE IF BadDistanceType(o) THEN "distance must be a number"
    ELSE IF BadStartVelocityType(o) THEN "startVelocity must be a number"
    ELSE IF MissingSegmentType(o) THEN "segmentType is required"
    ELSE IF BadInterval(o) THEN "startTime must be less than endTime"
    ELSE IF NegativeDistance(o) THEN "distance must be non-negative"
    ELSE IF NegativeStartVelocity(o) THEN "startVelocity must be non-negative"
    ELSE IF ConstantEndVelocity(o)
        THEN "endVelocity should not be provided for constant segment"
    ELSE IF NegativeEndVelocity(o) THEN "endVelocity must be non-negative"
    ELSE IF JerkLimitedNoJerk(o)
        THEN "startJerk and endJerk are required for jerk-limited segment"
    ELSE IF JerkLimitedNoAccel(o)
        THEN "startAccel and endAccel are required for jerk-limited segment"
    ELSE IF BadCruisePercentage(o)
        THEN "cruisePercentage must be between 0 and 1 for trapezoidal segments"
    ELSE NoError

\* the message of the Error validateOptions throws, NoError if it returns
validateOptions(o) ==
    IF BadTimeType(o) THEN "startTime and endTime must be numbers"
    ELSE IF BadDistanceType(o) THEN "distance must be a number"
    ELSE IF BadStartVelocityType(o) THEN "startVelocity must be a number"
    ELSE IF MissingSegmentType(o) THEN "segmentType is required"
    ELSE IF BadInterval(o) THEN "startTime must be less than endTime"
    ELSE IF NegativeDistance(o) THEN "distance must be non-negative"
    ELSE IF NegativeStartVelocity(o) THEN "startVelocity must be non-negative"
    ELSE IF ConstantEndVelocity(o)
        THEN "endVelocity should not be provided for constant segment"
    ELSE IF NegativeEndVelocity(o) THEN "endVelocity must be non-negative"
    ELSE IF JerkLimitedNoAccel(o)
        THEN "startAccel and endAccel are required for jerk-limited segment"
    ELSE IF JerkLimitedNoJerk(o)
        THEN "startJerk and endJerk are required for jerk-limited segment"
    ELSE IF BadCruisePercentage(o)
        THEN "cruisePercentage must be between 0 and 1 for trapezoidal segments"
    ELSE NoError

(***************************************************************************)
(* The constructor                                                         *)
(***************************************************************************)
\* the cubic system with the slope row at T written without its factors
CubicMatrixPlainSlope(T) ==
    << <<One, Zero, Zero, Zero>>,
       <<Zero, One, Zero, Zero>>,
       <<One, T, Pow(T, 2), Pow(T, 3)>>,
       <<Zero, One, T, Pow(T, 2)>> >>

\* the 4x4 system of the cubic: position and velocity at 0 and at T
CubicMatrix(T) ==
    << <<One, Zero, Zero, Zero>>,
       <<Zero, One, Zero, Zero>>,
       <<One, T, Pow(T, 2), Pow(T, 3)>>,
       <<Zero, One, Mul(Two, T), Mul(Num(3), Pow(T, 2))>> >>

\* the 6x6 system of the quintic: position, velocity, acceleration at 0 and T
QuinticMatrix(T) ==
    << <<One, Zero, Zero, Zero, Zero, Zero>>,
       <<Zero, One, Zero, Zero, Zero, Zero>>,
       <<Zero, Zero, Two, Zero, Zero, Zero>>,
       <<One, T, Pow(T, 2), Pow(T, 3), Pow(T, 4), Pow(T, 5)>>,
       <<Zero, One, Mul(Two, T), Mul(Num(3), Pow(T, 2)), Mul(Num(4), Pow(T, 3)),
         Mul(Num(5), Pow(T, 4))>>,
       <<Zero, Zero, Two, Mul(Num(6), T), Mul(Num(12), Pow(T, 2)),
         Mul(Num(20), Pow(T, 3))>> >>

\* the 8x8 system of the degree-7 polynomial: position, velocity,
\* acceleration and jerk at 0 and at T
JerkLimitedMatrix(T) ==
    << <<One, Zero, Zero, Zero, Zero, Zero, Zero, Zero>>,
       <<Zero, One, Zero, Zero, Zero, Zero, Zero, Zero>>,
       <<Zero, Zero, Two, Zero, Zero, Zero, Zero, Zero>>,
       <<Zero, Zero, Zero, Num(6), Zero, Zero, Zero, Zero>>,
       <<One, T, Pow(T, 2), Pow(T, 3), Pow(T, 4), Pow(T, 5), Pow(T, 6), Pow(T, 7)>>,
       <<Zero, One, Mul(Two, T), Mul(Num(3), Pow(T, 2)), Mul(Num(4), Pow(T, 3)),
         Mul(Num(5), Pow(T, 4)), Mul(Num(6), Pow(T, 5)), Mul(Num(7), Pow(T, 6))>>,
       <<Zero, Zero, Two, Mul(Num(6), T), Mul(Num(12), Pow(T, 2)),
         Mul(Num(20), Pow(T, 3)), Mul(Num(30), Pow(T, 4)), Mul(Num(42), Pow(T, 5))>>,
       <<Zero, Zero, Zero, Num(6), Mul(Num(24), T), Mul(Num(60), Pow(T, 2)),
         Mul(Num(120), Pow(T, 3)), Mul(Num(210), Pow(T, 4))>> >>

\* this.coeffs of a polynomial segment: the quintic when both accelerations
\* are supplied, the cubic otherwise
PolynomialCoeffs(o, d, v0, vf) ==
    Local(Sub(o.endTime, o.startTime), LAMBDA T :
        IF o.startAccel # Undef /\ o.endAccel # Undef
        THEN solveLinearSystem(QuinticMatrix(T),
                               <<Zero, v0, o.startAccel, d, vf, o.endAccel>>)
        ELSE solveLinearSystem(CubicMatrix(T), <<Zero, v0, d, vf>>))

\* this.jerkCoeffs, from the fields already stored
calcJerkLimitedCoeffs(t0, t1, d, v0, vf, a0, af, j0, jf) ==
    solveLinearSystem(JerkLimitedMatrix(Sub(t1, t0)),
                      <<Zero, v0, a0, j0, d, vf, af, jf>>)

\* the fields of the instance, from the values the constructor has assigned
\* before it fits the polynomials
SegmentFields(o, vf, a0, af, j0, jf) ==
    [t0 |-> o.startTime, t1 |-> o.endTime, d |-> o.distance,
     v0 |-> o.startVelocity, vf |-> vf, a0 |-> a0, af |-> af,
     j0 |-> j0, jf |-> jf, type |-> o.segmentType,
     coeffs |-> IF o.segmentType = "polynomial"
                THEN PolynomialCoeffs(o, o.distance, o.startVelocity, vf)
                ELSE Undef,
     jerkCoeffs |-> IF o.segmentType = "jerk-limited"
                    THEN calcJerkLimitedCoeffs(o.startTime, o.endTime, o.distance,
                                               o.startVelocity, vf, a0, af, j0, jf)
                    ELSE Undef,
     cruisePercentage |-> o.cruisePercentage]

\* a0 of a constant segment without the factor 2
ConstantAccelHalved(d, v0, T) == Div(Sub(d, Mul(v0, T)), Pow(T, 2))

\* a0 of a constant segment: 2 * (d - v0 * T) / T^2
ConstantAccel(d, v0, T) == Div(Mul(Two, Sub(d, Mul(v0, T))), Pow(T, 2))

\* the instance the constructor returns for options o that passed
\* validateOptions
NewSegment(o) ==
    IF o.segmentType = "constant"
    THEN Local(ConstantAccel(o.distance, o.startVelocity,
                             Sub(o.endTime, o.startTime)),
         LAMBDA a0 :
             SegmentFields(o, Undef, a0, a0, Coalesce(o.startJerk, Zero),
                           Coalesce(o.endJerk, Zero)))
    ELSE SegmentFields(o, Coalesce(o.endVelocity, o.startVelocity),
                       Coalesce(o.startAccel, Zero), Coalesce(o.endAccel, Zero),
                       Coalesce(o.startJerk, Zero), Coalesce(o.endJerk, Zero))

(***************************************************************************)
(* Evaluation.  An evaluation returns a number, or Thrown(msg) when the    *)
(* method throws new Error(msg).                                           *)
(***************************************************************************)
Thrown(msg) == <<msg>>
IsThrown(r) == Len(r) = 1

\* clampDt with the lower clamp left out
clampDtNoLower(s, t) ==
    IF Gt(t, s.t1) THEN Sub(s.t1, s.t0) ELSE Sub(t, s.t0)

clampDt(s, t) ==
    IF Lt(t, s.t0) THEN Zero
    ELSE IF Gt(t, s.t1) THEN Sub(s.t1, s.t0)
    ELSE Sub(t, s.t0)

normalizedTime(s, t) == Div(Sub(t, s.t0), Sub(s.t1, s.t0))

clamp01(x) == Max(Zero, Min(One, x))

\* --- constant acceleration ---
constantPosition(s, t) ==
    Local(clampDt(s, t), LAMBDA dt :
        Add(Mul(s.v0, dt), Mul(Mul(Mul(Half, s.a0), dt), dt)))

constantVelocity(s, t) == Add(s.v0, Mul(s.a0, clampDt(s, t)))

constantAcceleration(s, t) == s.a0

\* --- triangular ---
TriangularFrom(T, d) ==
    Local(Div(Mul(Two, d), T), LAMBDA vPeak :
    Local(Div(T, Two), LAMBDA t1 :
        [a |-> Div(vPeak, t1), t1 |-> t1, vPeak |-> vPeak]))

triangularParams(s) == TriangularFrom(Sub(s.t1, s.t0), s.d)

triangularPosition(s, t) ==
    Local(clampDt(s, t), LAMBDA dt :
    Local(triangularParams(s), LAMBDA p :
        IF Lt(dt, p.t1)
        THEN Add(Mul(s.v0, dt), Mul(Mul(Mul(Half, p.a), dt), dt))
        ELSE Local(Add(Mul(s.v0, p.t1), Mul(Mul(Mul(Half, p.a), p.t1), p.t1)),
             LAMBDA d1 :
             Local(Sub(dt, p.t1), LAMBDA dt2 :
                 Add(Add(d1, Mul(p.vPeak, dt2)),
                     Mul(Mul(Mul(Half, Neg(p.a)), dt2), dt2))))))

triangularVelocity(s, t) ==
    Local(clampDt(s, t), LAMBDA dt :
    Local(triangularParams(s), LAMBDA p :
        IF Lt(dt, p.t1)
        THEN Add(s.v0, Mul(p.a, dt))
        ELSE Add(p.vPeak, Mul(Neg(p.a), Sub(dt, p.t1)))))

\* the acceleration with the midpoint counted in the first half
triangularAccelerationLateFlip(s, t) ==
    Local(clampDt(s, t), LAMBDA dt :
    Local(triangularParams(s), LAMBDA p :
        IF Gt(dt, p.t1) THEN Neg(p.a) ELSE p.a))

triangularAcceleration(s, t) ==
    Local(clampDt(s, t), LAMBDA dt :
    Local(triangularParams(s), LAMBDA p :
        IF Lt(dt, p.t1) THEN p.a ELSE Neg(p.a)))

\* --- trapezoidal ---
\* the branch taken when cruisePercentage is set
\* the cruise branch with each ramp given the whole of T - t2
TrapezoidalCruiseLongRamps(T, v0, vf, d, cruisePercentage) ==
    Local(Max(Zero, Min(One, cruisePercentage)), LAMBDA cruiseFrac :
    Local(Mul(cruiseFrac, T), LAMBDA t2 :
    Local(Sub(T, t2), LAMBDA t1 :
    Local(Div(Sub(Sub(d, Mul(Div(t1, Two), v0)), Mul(Div(t1, Two), vf)),
              Add(Add(Div(t1, Two), t2), Div(t1, Two))), LAMBDA vMax :
        [vMax |-> vMax, t1 |-> t1, t2 |-> t2, t3 |-> t1,
         a1 |-> Div(Sub(vMax, v0), t1), a3 |-> Div(Sub(vf, vMax), t1)]))))

TrapezoidalCruise(T, v0, vf, d, cruisePercentage) ==
    Local(Max(Zero, Min(One, cruisePercentage)), LAMBDA cruiseFrac :
    Local(Mul(cruiseFrac, T), LAMBDA t2 :
    Local(Div(Sub(T, t2), Two), LAMBDA t1 :
    Local(Div(Sub(T, t2), Two), LAMBDA t3 :
    Local(Div(Sub(Sub(d, Mul(Div(t1, Two), v0)), Mul(Div(t3, Two), vf)),
              Add(Add(Div(t1, Two), t2), Div(t3, Two))), LAMBDA vMax :
        [vMax |-> vMax, t1 |-> t1, t2 |-> t2, t3 |-> t3,
         a1 |-> Div(Sub(vMax, v0), t1), a3 |-> Div(Sub(vf, vMax), t3)])))))

\* the branch solving for the minimum vMax
TrapezoidalAuto(T, v0, vf, d) ==
    Local(Div(Mul(Two, Sub(d, Mul(Div(T, Num(4)), Add(v0, vf)))), T),
    LAMBDA vMaxMin :
    Local(Div(Sub(vMaxMin, v0), Div(T, Two)), LAMBDA a1 :
    Local(Div(Sub(vf, vMaxMin), Div(T, Two)), LAMBDA a3 :
    Local(Div(Sub(vMaxMin, v0), a1), LAMBDA t1 :
    Local(Div(Sub(vMaxMin, vf), Abs(a3)), LAMBDA t3 :
    Local(Div(Mul(Add(v0, vMaxMin), t1), Two), LAMBDA d1 :
    Local(Div(Mul(Add(vf, vMaxMin), t3), Two), LAMBDA d3 :
    Local(Div(Sub(Sub(d, d1), d3), vMaxMin), LAMBDA t2 :
        IF Lt(t2, Zero)
        THEN [vMax |-> vMaxMin, t1 |-> Div(T, Two), t2 |-> Zero,
              t3 |-> Div(T, Two),
              a1 |-> Div(Sub(vMaxMin, v0), Div(T, Two)),
              a3 |-> Div(Sub(vf, vMaxMin), Div(T, Two))]
        ELSE [vMax |-> vMaxMin, t1 |-> t1, t2 |-> t2, t3 |-> t3,
              a1 |-> a1, a3 |-> a3]))))))))

\* the cruise duration t2 the minimum-vMax solution gives, before it is
\* tested for being negative
TrapezoidalAutoCruise(T, v0, vf, d) ==
    Local(Div(Mul(Two, Sub(d, Mul(Div(T, Num(4)), Add(v0, vf)))), T),
    LAMBDA vMaxMin :
    Local(Div(Sub(vMaxMin, v0), Div(T, Two)), LAMBDA a1 :
    Local(Div(Sub(vf, vMaxMin), Div(T, Two)), LAMBDA a3 :
    Local(Div(Sub(vMaxMin, v0), a1), LAMBDA t1 :
    Local(Div(Sub(vMaxMin, vf), Abs(a3)), LAMBDA t3 :
    Local(Div(Mul(Add(v0, vMaxMin), t1), Two), LAMBDA d1 :
    Local(Div(Mul(Add(vf, vMaxMin), t3), Two), LAMBDA d3 :
        Div(Sub(Sub(d, d1), d3), vMaxMin))))))))

trapezoidalParams(s) ==
    IF s.cruisePercentage # Undef
    THEN TrapezoidalCruise(Sub(s.t1, s.t0), s.v0, s.vf, s.d, s.cruisePercentage)
    ELSE TrapezoidalAuto(Sub(s.t1, s.t0), s.v0, s.vf, s.d)

trapezoidalPosition(s, t) ==
    Local(clampDt(s, t), LAMBDA dt :
    Local(trapezoidalParams(s), LAMBDA p :
        IF Lt(dt, p.t1)
        THEN Add(Mul(s.v0, dt), Mul(Mul(Mul(Half, p.a1), dt), dt))
        ELSE Local(Add(Mul(s.v0, p.t1), Mul(Mul(Mul(Half, p.a1), p.t1), p.t1)),
             LAMBDA d1 :
             IF Lt(dt, Add(p.t1, p.t2))
             THEN Add(d1, Mul(p.vMax, Sub(dt, p.t1)))
             ELSE Local(Sub(Sub(dt, p.t1), p.t2), LAMBDA dt3 :
                      Add(Add(Add(d1, Mul(p.vMax, p.t2)), Mul(p.vMax, dt3)),
                          Mul(Mul(Mul(Half, p.a3), dt3), dt3))))))

trapezoidalVelocity(s, t) ==
    Local(clampDt(s, t), LAMBDA dt :
    Local(trapezoidalParams(s), LAMBDA p :
        IF Lt(dt, p.t1) THEN Add(s.v0, Mul(p.a1, dt))
        ELSE IF Lt(dt, Add(p.t1, p.t2)) THEN p.vMax
        ELSE Add(p.vMax, Mul(p.a3, Sub(Sub(dt, p.t1), p.t2)))))

trapezoidalAcceleration(s, t) ==
    Local(clampDt(s, t), LAMBDA dt :
    Local(trapezoidalParams(s), LAMBDA p :
        IF Lt(dt, p.t1) THEN p.a1
        ELSE IF Lt(dt, Add(p.t1, p.t2)) THEN Zero
        ELSE p.a3))

\* --- cubic S-curve ---
sCurvePosition(s, t) ==
    Local(clamp01(normalizedTime(s, t)), LAMBDA x :
        Mul(s.d, Sub(Mul(Mul(Num(3), x), x), Mul(Mul(Mul(Two, x), x), x))))

\* the s-curve velocity left in units of normalized time
sCurveVelocityUnscaled(s, t) ==
    Local(clamp01(normalizedTime(s, t)), LAMBDA x :
        Mul(s.d, Sub(Mul(Num(6), x), Mul(Mul(Num(6), x), x))))

sCurveVelocity(s, t) ==
    Local(clamp01(normalizedTime(s, t)), LAMBDA x :
        Div(Mul(s.d, Sub(Mul(Num(6), x), Mul(Mul(Num(6), x), x))),
            Sub(s.t1, s.t0)))

sCurveAcceleration(s, t) ==
    Local(Sub(s.t1, s.t0), LAMBDA T :
        Div(Mul(s.d, Sub(Num(6), Mul(Num(12), clamp01(normalizedTime(s, t))))),
            Mul(T, T)))

sCurveJerk(s, t) ==
    Local(Sub(s.t1, s.t0), LAMBDA T :
        Div(Mul(Num(-12), s.d), Mul(Mul(T, T), T)))

\* --- power-basis polynomials ---
\* the weight of the term of index i of coeffs.slice(deriv)
DerivWeight(i, deriv) ==
    IF deriv = 0 THEN 1
    ELSE IF deriv = 1 THEN i + 1
    ELSE IF deriv = 2 THEN (i + 2) * (i + 1)
    ELSE (i + 3) * (i + 2) * (i + 1)

\* coeffs.slice(deriv).reduce((sum, c, i) => sum + c * w(i) * Math.pow(dt, i), 0)
RECURSIVE ReduceTerms(_, _, _, _, _)
ReduceTerms(coeffs, dt, deriv, i, sum) ==
    IF deriv + i + 1 > Len(coeffs) THEN sum
    ELSE ReduceTerms(coeffs, dt, deriv, i + 1,
             Add(sum, Mul(Mul(coeffs[deriv + i + 1], Num(DerivWeight(i, deriv))),
                          Pow(dt, i))))

PolyEval(coeffs, dt, deriv) == ReduceTerms(coeffs, dt, deriv, 0, Zero)

polynomialPosition(s, t) ==
    IF s.coeffs = Undef THEN Thrown("No coefficients provided")
    ELSE PolyEval(s.coeffs, clampDt(s, t), 0)

polynomialVelocity(s, t) ==
    IF s.coeffs = Undef THEN Thrown("No coefficients provided")
    ELSE PolyEval(s.coeffs, clampDt(s, t), 1)

polynomialAcceleration(s, t) ==
    IF s.coeffs = Undef THEN Thrown("No coefficients provided")
    ELSE PolyEval(s.coeffs, clampDt(s, t), 2)

polynomialJerk(s, t) ==
    IF s.coeffs = Undef THEN Thrown("No coefficients provided")
    ELSE PolyEval(s.coeffs, clampDt(s, t), 3)

\* --- jerk-limited ---
jerkLimitedPolyEval(s, t, deriv) ==
    Local(Sub(t, s.t0), LAMBDA dt0 :
    Local(IF Lt(dt0, Zero) THEN Zero ELSE dt0, LAMBDA dt1 :
    Local(IF Gt(dt1, Sub(s.t1, s.t0)) THEN Sub(s.t1, s.t0) ELSE dt1, LAMBDA dt :
        IF deriv \in 0..3 THEN PolyEval(s.jerkCoeffs, dt, deriv) ELSE Zero)))

jerkLimitedPosition(s, t) ==
    IF s.jerkCoeffs = Undef THEN Thrown("Coefficients not set")
    ELSE jerkLimitedPolyEval(s, t, 0)

jerkLimitedVelocity(s, t) ==
    IF s.jerkCoeffs = Undef THEN Thrown("Coefficients not set")
    ELSE jerkLimitedPolyEval(s, t, 1)

jerkLimitedAcceleration(s, t) ==
    IF s.jerkCoeffs = Undef THEN Thrown("Coefficients not set")
    ELSE jerkLimitedPolyEval(s, t, 2)

jerkLimitedJerk(s, t) ==
    IF s.jerkCoeffs = Undef THEN Thrown("Coefficients not set")
    ELSE jerkLimitedPolyEval(s, t, 3)

\* --- public API ---
position(s, t) ==
    CASE s.type = "constant"     -> constantPosition(s, t)
      [] s.type = "triangular"   -> triangularPosition(s, t)
      [] s.type = "trapezoidal"  -> trapezoidalPosition(s, t)
      [] s.type = "s-curve"      -> sCurvePosition(s, t)
      [] s.type = "polynomial"   -> polynomialPosition(s, t)
      [] s.type = "jerk-limited" -> jerkLimitedPosition(s, t)
      [] OTHER                   -> Thrown("Unknown segment type")

velocity(s, t) ==
    CASE s.type = "constant"     -> constantVelocity(s, t)
      [] s.type = "triangular"   -> triangularVelocity(s, t)
      [] s.type = "trapezoidal"  -> trapezoidalVelocity(s, t)
      [] s.type = "s-curve"      -> sCurveVelocity(s, t)
      [] s.type = "polynomial"   -> polynomialVelocity(s, t)
      [] s.type = "jerk-limited" -> jerkLimitedVelocity(s, t)
      [] OTHER                   -> Thrown("Unknown segment type")

acceleration(s, t) ==
    CASE s.type = "constant"     -> constantAcceleration(s, t)
      [] s.type = "triangular"   -> triangularAcceleration(s, t)
      [] s.type = "trapezoidal"  -> trapezoidalAcceleration(s, t)
      [] s.type = "s-curve"      -> sCurveAcceleration(s, t)
      [] s.type = "polynomial"   -> polynomialAcceleration(s, t)
      [] s.type = "jerk-limited" -> jerkLimitedAcceleration(s, t)
      [] OTHER                   -> Thrown("Unknown segment type")

jerk(s, t) ==
    CASE s.type = "polynomial"   -> polynomialJerk(s, t)
      [] s.type = "jerk-limited" -> jerkLimitedJerk(s, t)
      [] s.type = "s-curve"      -> sCurveJerk(s, t)
      [] OTHER                   -> Zero


\* --- extrema by sampling ---
Steps == 100

\* t = this.t0 + (i / steps) * (this.t1 - this.t0)
SampleTime(s, i) == Add(s.t0, Mul(Frac(i, Steps), Sub(s.t1, s.t0)))

\* one pass of the body of the loop of getMaxAcceleration, maxA being the
\* largest |acceleration| seen so far; a throw of acceleration(t) ends the call
MaxAccelerationStep(s, i, maxA) ==
    Local(acceleration(s, SampleTime(s, i)), LAMBDA r :
        IF IsThrown(r) THEN r
        ELSE IF Gt(Abs(r), maxA) THEN Abs(r) ELSE maxA)

\* the passes lo..hi of the loop in order: those of the first half of the
\* range, then, unless one of them threw, those of the second
RECURSIVE MaxAccelerationLoop(_, _, _, _)
MaxAccelerationLoop(s, lo, hi, maxA) ==
    IF lo > hi THEN maxA
    ELSE IF lo = hi THEN MaxAccelerationStep(s, lo, maxA)
    ELSE Local(MaxAccelerationLoop(s, lo, (lo + hi) \div 2, maxA), LAMBDA m :
             IF IsThrown(m) THEN m
             ELSE MaxAccelerationLoop(s, (lo + hi) \div 2 + 1, hi, m))

\* getMaxAcceleration with the loop stopping before i = steps
getMaxAccelerationOpenEnd(s) == MaxAccelerationLoop(s, 0, Steps - 1, Zero)

getMaxAcceleration(s) == MaxAccelerationLoop(s, 0, Steps, Zero)

\* the same for getMaxJerk
MaxJerkStep(s, i, maxJ) ==
    Local(jerk(s, SampleTime(s, i)), LAMBDA r :
        IF IsThrown(r) THEN r
        ELSE IF Gt(Abs(r), maxJ) THEN Abs(r) ELSE maxJ)

RECURSIVE MaxJerkLoop(_, _, _, _)
MaxJerkLoop(s, lo, hi, maxJ) ==
    IF lo > hi THEN maxJ
    ELSE IF lo = hi THEN MaxJerkStep(s, lo, maxJ)
    ELSE Local(MaxJerkLoop(s, lo, (lo + hi) \div 2, maxJ), LAMBDA m :
             IF IsThrown(m) THEN m
             ELSE MaxJerkLoop(s, (lo + hi) \div 2 + 1, hi, m))

getMaxJerk(s) == MaxJerkLoop(s, 0, Steps, Zero)


\* --- derivations made by a call ---
\* the constructor calls solveLinearSystem once for a polynomial segment and
\* once, through calcJerkLimitedCoeffs, for a jerk-limited one
ConstructorDerivations(o) ==
    IF o.segmentType \in {"polynomial", "jerk-limited"} THEN 1 ELSE 0

\* triangularPosition/Velocity/Acceleration open with this.triangularParams()
\* and the trapezoidal three with this.trapezoidalParams(); the other
\* evaluators read fields only
ParamsDerivations(s) ==
    IF s.type \in {"triangular", "trapezoidal"} THEN 1 ELSE 0

\* the derivations one call of a public method makes: jerk() derives nothing,
\* getMaxAcceleration calls acceleration(t) for i = 0..steps
Derivations(name, s) ==
    CASE name \in {"position", "velocity", "acceleration"} -> ParamsDerivations(s)
      [] name = "getMaxAcceleration" -> (Steps + 1) * ParamsDerivations(s)
      [] OTHER -> 0

(***************************************************************************)
(* Bounds of the model and the inputs drawn within them                    *)
(***************************************************************************)
MaxT == 2          \* end times range over 1..MaxT+1, start times over 0..1
MaxD == 2          \* distances 0..MaxD
MaxV == 1          \* velocities 0..MaxV
MaxA == 1          \* boundary accelerations -MaxA, 0, MaxA
MaxJ == 1          \* boundary jerks -MaxJ, 0, MaxJ
CruiseDen == 3     \* cruise fractions k/CruiseDen
TimeDen == 2       \* query times t0 + k*(t1 - t0)/TimeDen
MaxEntry2 == 2     \* entries of the 2x2 systems, -MaxEntry2..MaxEntry2
MaxEntry3 == 1     \* entries of the 3x3 systems, 0..MaxEntry3

Nums(S) == {Num(k) : k \in S}

StartTimes == Nums(0..1)
EndTimes   == Nums(1..MaxT + 1)
Distances  == Nums(0..MaxD)
Velocities == Nums(0..MaxV)
EndVelocities == {Undef} \cup Velocities
CruiseFractions == {Frac(k, CruiseDen) : k \in 0..CruiseDen}

\* options whose numbers are all in range; the interval may be empty
PlainOpts ==
    {MkOpts(t0, t1, d, v0, vf, Undef, Undef, Undef, Undef, ty, Undef) :
        t0 \in StartTimes, t1 \in EndTimes, d \in Distances, v0 \in Velocities,
        vf \in EndVelocities, ty \in {"constant", "triangular", "s-curve", "spline"}}

TrapezoidalOpts ==
    {MkOpts(t0, t1, d, v0, vf, Undef, Undef, Undef, Undef, "trapezoidal", cp) :
        t0 \in StartTimes, t1 \in EndTimes, d \in Distances, v0 \in Velocities,
        vf \in EndVelocities, cp \in {Undef} \cup CruiseFractions}

PolynomialOpts ==
    {MkOpts(t0, t1, d, v0, vf, a0, af, Undef, Undef, "polynomial", Undef) :
        t0 \in StartTimes, t1 \in EndTimes, d \in Distances, v0 \in Velocities,
        vf \in EndVelocities, a0 \in {Undef, Num(-MaxA), Num(MaxA)},
        af \in {Undef, Num(MaxA)}}

JerkLimitedOpts ==
    {MkOpts(t0, t1, d, v0, vf, a0, af, j0, jf, "jerk-limited", Undef) :
        t0 \in StartTimes, t1 \in EndTimes, d \in Distances, v0 \in Velocities,
        vf \in EndVelocities, a0 \in {Num(-MaxA), Num(MaxA)}, af \in {Zero},
        j0 \in {Num(MaxJ)}, jf \in {Num(-MaxJ), Zero}}

\* options with a NaN or an infinity among the four required numbers
NonFiniteOpts ==
    {MkOpts(t0, t1, Num(MaxD), v0, Undef, a, a, a, a, ty, Undef) :
        t0 \in {Zero, NaN, NInf}, t1 \in {One, PInf}, v0 \in {Zero, PInf},
        a \in {Zero}, ty \in SegmentTypes}

EvalOpts == PlainOpts \cup TrapezoidalOpts \cup PolynomialOpts
                \cup JerkLimitedOpts \cup NonFiniteOpts

\* the times an evaluation is asked for: before, at and after the ends of the
\* interval, and the points dividing it into TimeDen parts
QueryTimes(s) ==
    IF s = Undef THEN {}
    ELSE {Sub(s.t0, One), Add(s.t1, One)} \cup
         {Add(s.t0, Mul(Frac(k, TimeDen), Sub(s.t1, s.t0))) : k \in 0..TimeDen}

(***************************************************************************)
(* Operations                                                              *)
(***************************************************************************)
Init ==
    /\ opts = Undef
    /\ seg = Undef
    /\ err = NoError
    /\ op = "init"
    /\ tq = Undef
    /\ res = Undef
    /\ derived = 0
    /\ sM = <<>>
    /\ sb = <<>>
    /\ sA = <<>>
    /\ si = 0
    /\ sp = 0
    /\ sx = <<>>

\* a constructor that assigns the times before it validates, and leaves the
\* object behind when validation throws
ConstructedAssignFirst(o, e) ==
    /\ op = "init"
    /\ op' = "construct"
    /\ opts' = o
    /\ err' = e
    /\ seg' = IF e = NoError THEN NewSegment(o)
              ELSE [t0 |-> o.startTime, t1 |-> o.endTime]
    /\ tq' = Undef
    /\ res' = Undef
    /\ derived' = IF e = NoError THEN ConstructorDerivations(o) ELSE 0
    /\ UNCHANGED solveVars

\* new MotionSegment(o): validateOptions first; when it throws no instance
\* exists, otherwise the fields are derived and the instance returned.  A
\* behaviour follows one instance: the constructor call, then its evaluations.
Constructed(o, e) ==
    /\ op = "init"
    /\ op' = "construct"
    /\ opts' = o
    /\ err' = e
    /\ seg' = IF e = NoError THEN NewSegment(o) ELSE Undef
    /\ tq' = Undef
    /\ res' = Undef
    /\ derived' = IF e = NoError THEN ConstructorDerivations(o) ELSE 0
    /\ UNCHANGED solveVars

Construct(o) == Constructed(o, validateOptions(o))

\* a call that keeps what it computed in the field jerkCoeffs
EvaluatedCaching(name, t, r) ==
    /\ seg # Undef
    /\ op' = name
    /\ tq' = t
    /\ res' = r
    /\ err' = IF IsThrown(r) THEN r[1] ELSE NoError
    /\ derived' = Derivations(name, seg)
    /\ seg' = [seg EXCEPT !.jerkCoeffs = IF @ = Undef THEN <<r>> ELSE @]
    /\ UNCHANGED opts
    /\ UNCHANGED solveVars

\* a call of one of the public methods on the instance; t is Undef for the
\* methods that take no time
Evaluated(name, t, r) ==
    /\ seg # Undef
    /\ op' = name
    /\ tq' = t
    /\ res' = r
    /\ err' = IF IsThrown(r) THEN r[1] ELSE NoError
    /\ derived' = Derivations(name, seg)
    /\ UNCHANGED <<opts, seg>>
    /\ UNCHANGED solveVars

Position(t)     == Evaluated("position", t, position(seg, t))
Velocity(t)     == Evaluated("velocity", t, velocity(seg, t))
Acceleration(t) == Evaluated("acceleration", t, acceleration(seg, t))
Jerk(t)         == Evaluated("jerk", t, jerk(seg, t))

GetMaxAcceleration == Evaluated("getMaxAcceleration", Undef, getMaxAcceleration(seg))
GetMaxJerk         == Evaluated("getMaxJerk", Undef, getMaxJerk(seg))

EvalOps == {"position", "velocity", "acceleration", "jerk"}

\* One constructor call, then one evaluation of the instance it returned: an
\* evaluation changes no field, so what a later evaluation returns is what it
\* returns as the first.
Next ==
    \/ op = "init" /\ \E o \in EvalOpts : Construct(o)
    \/ op = "construct" /\ \E t \in QueryTimes(seg) : Position(t)
    \/ op = "construct" /\ \E t \in QueryTimes(seg) : Velocity(t)
    \/ op = "construct" /\ \E t \in QueryTimes(seg) : Acceleration(t)
    \/ op = "construct" /\ \E t \in QueryTimes(seg) : Jerk(t)

Spec == Init /\ [][Next]_vars

(***************************************************************************)
(* Constructor calls with missing, non-finite and out-of-range options     *)
(***************************************************************************)
\* each required number absent, NaN, infinite, negative, zero and positive;
\* the tag absent (""), unrecognized ("spline") and each recognized one
CoreOpts ==
    {MkOpts(t0, t1, d, v0, vf, Undef, Undef, Undef, Undef, ty, Undef) :
        t0 \in {Undef, NaN, NInf, Zero, One},
        t1 \in {Undef, NaN, PInf} \cup Nums(1..MaxT),
        d  \in {Undef, NaN, PInf} \cup Nums(-1..MaxD),
        v0 \in {Undef, NaN, PInf, NInf} \cup Nums(-1..MaxV),
        vf \in {Undef} \cup Nums(-1..MaxV),
        ty \in SegmentTypes \cup {"", "spline"}}

\* jerk-limited calls with each boundary derivative absent, negative, zero
\* and positive
BoundaryAccels == {Undef, Num(-MaxA), Zero, Num(MaxA)}
BoundaryJerks  == {Undef, Num(-MaxJ), Zero, Num(MaxJ)}

DerivativeOpts ==
    {MkOpts(Zero, One, d, Zero, vf, a0, af, j0, jf, "jerk-limited", Undef) :
        d \in {Zero, Num(MaxD)}, vf \in {Undef, Num(MaxV)},
        a0 \in BoundaryAccels, af \in BoundaryAccels,
        j0 \in BoundaryJerks, jf \in BoundaryJerks}

\* calls with a cruise fraction below 0, at 0, inside (0,1), at 1, above 1
\* and NaN, on the trapezoidal type and on one that ignores it
CruiseOpts ==
    {MkOpts(Zero, t1, d, v0, Undef, Undef, Undef, Undef, Undef, ty, cp) :
        t1 \in Nums(1..MaxT), d \in Distances, v0 \in Velocities,
        ty \in {"trapezoidal", "triangular"},
        cp \in {NaN, Frac(-1, CruiseDen), Frac(CruiseDen + 1, CruiseDen)}
                 \cup CruiseFractions}

\* calls on every shape with each optional boundary value absent or supplied
OptionalOpts ==
    {MkOpts(Zero, One, Num(MaxD), Num(MaxV), vf, a0, af, j0, jf, ty, Undef) :
        vf \in {Undef, Zero},
        a0 \in {Undef, Num(-MaxA)}, af \in {Undef, Num(MaxA)},
        j0 \in {Undef, Num(MaxJ)}, jf \in {Undef, Num(-MaxJ)},
        ty \in SegmentTypes}

NextValidate ==
    \/ op = "init" /\ \E o \in CoreOpts : Construct(o)
    \/ op = "init" /\ \E o \in OptionalOpts : Construct(o)
    \/ op = "init" /\ \E o \in DerivativeOpts : Construct(o)
    \/ op = "init" /\ \E o \in CruiseOpts : Construct(o)

SpecValidate == Init /\ [][NextValidate]_vars

(***************************************************************************)
(* Calls of solveLinearSystem, one step of its loops at a time             *)
(***************************************************************************)
Entries2 == Nums(-MaxEntry2..MaxEntry2)
Entries3 == Nums(0..MaxEntry3)

\* every 2x2 matrix over Entries2 with three right-hand sides, every 3x3
\* matrix over Entries3 with one; singular matrices are among them
Systems2 ==
    {<< << <<a, b>>, <<c, d>> >>, rhs >> :
        a \in Entries2, b \in Entries2, c \in Entries2, d \in Entries2,
        rhs \in {<<One, Zero>>, <<Zero, One>>, <<One, Num(MaxEntry2)>>}}

Rows3 == {<<a, b, c>> : a \in Entries3, b \in Entries3, c \in Entries3}

Systems3 ==
    {<< <<r1, r2, r3>>, <<One, Two, Num(3)>> >> :
        r1 \in Rows3, r2 \in Rows3, r3 \in Rows3}

\* solveLinearSystem(M, b) is entered: A = [M | b], i at the first column
SolveCall(M, b) ==
    /\ op = "init"
    /\ op' = "solve"
    /\ sM' = M
    /\ sb' = b
    /\ sA' = Augment(M, b)
    /\ si' = 1
    /\ sp' = 0
    /\ sx' = <<>>
    /\ UNCHANGED segVars

\* the pivot search of column i and the swap of rows i and maxRow
SolveSwap ==
    /\ op \in {"solve", "eliminate"}
    /\ si <= Len(sb)
    /\ op' = "swap"
    /\ sp' = MaxRow(sA, si)
    /\ sA' = SwapRows(sA, si, MaxRow(sA, si))
    /\ UNCHANGED <<sM, sb, si, sx>>
    /\ UNCHANGED segVars

\* row i divided by its pivot
SolveNormalize ==
    /\ op = "swap"
    /\ op' = "normalize"
    /\ sA' = NormalizeRow(sA, si)
    /\ UNCHANGED <<sM, sb, si, sp, sx>>
    /\ UNCHANGED segVars

\* column i eliminated from every other row, and i++
SolveEliminate ==
    /\ op = "normalize"
    /\ op' = "eliminate"
    /\ sA' = EliminateColumn(sA, si)
    /\ si' = si + 1
    /\ UNCHANGED <<sM, sb, sp, sx>>
    /\ UNCHANGED segVars

\* the loop has ended: the augmented column is returned
SolveReturn ==
    /\ op \in {"solve", "eliminate"}
    /\ si > Len(sb)
    /\ op' = "solved"
    /\ sx' = LastColumn(sA, Len(sb))
    /\ UNCHANGED <<sM, sb, sA, si, sp>>
    /\ UNCHANGED segVars

NextSolve ==
    \/ op = "init" /\ \E s \in Systems2 : SolveCall(s[1], s[2])
    \/ op = "init" /\ \E s \in Systems3 : SolveCall(s[1], s[2])
    \/ SolveSwap
    \/ SolveNormalize
    \/ SolveEliminate
    \/ SolveReturn

SpecSolve == Init /\ [][NextSolve]_vars

(***************************************************************************)
(* The closed-form shapes evaluated on a grid that holds their phase       *)
(* boundaries                                                              *)
(***************************************************************************)
\* constant, triangular, trapezoidal (with and without a cruise fraction)
\* and s-curve segments; the s-curve also with boundary accelerations
ShapeOpts ==
    {MkOpts(t0, t1, d, v0, vf, Undef, Undef, Undef, Undef, ty, Undef) :
        t0 \in StartTimes, t1 \in EndTimes, d \in Distances, v0 \in Velocities,
        vf \in EndVelocities, ty \in {"constant", "triangular"}}
    \cup
    {MkOpts(t0, t1, d, v0, vf, a, a, Undef, Undef, "s-curve", Undef) :
        t0 \in StartTimes, t1 \in EndTimes, d \in Distances, v0 \in Velocities,
        vf \in EndVelocities, a \in {Undef, Num(MaxA)}}
    \cup TrapezoidalOpts

\* before t0, after t1, and t0 + k * (t1 - t0) / (2 * CruiseDen): the ends of
\* the interval, its midpoint and the ends of every cruise window
GridTimes(s) ==
    IF s = Undef THEN {}
    ELSE {Sub(s.t0, One), Add(s.t1, One)} \cup
         {Add(s.t0, Mul(Frac(k, 2 * CruiseDen), Sub(s.t1, s.t0))) :
              k \in 0..2 * CruiseDen}

NextShapes ==
    \/ op = "init" /\ \E o \in ShapeOpts : Construct(o)
    \/ op = "construct" /\ \E t \in GridTimes(seg) : Position(t)
    \/ op = "construct" /\ \E t \in GridTimes(seg) : Velocity(t)
    \/ op = "construct" /\ \E t \in GridTimes(seg) : Acceleration(t)
    \/ op = "construct" /\ \E t \in GridTimes(seg) : Jerk(t)

SpecShapes == Init /\ [][NextShapes]_vars

(***************************************************************************)
(* Sequences of calls on one instance                                      *)
(***************************************************************************)
\* segments of every shape whose samples the exact arithmetic can hold: the
\* quintic and the degree-7 polynomial at the times i/100 are beyond it
CallOpts ==
    {MkOpts(One, t1, Num(MaxD), v0, Undef, Undef, Undef, Undef, Undef, ty, Undef) :
        t1 \in EndTimes, v0 \in Velocities,
        ty \in {"constant", "triangular", "s-curve"}}
    \cup
    {MkOpts(One, t1, Num(MaxD), v0, Undef, Undef, Undef, Undef, Undef,
            "trapezoidal", cp) :
        t1 \in EndTimes, v0 \in Velocities, cp \in {Undef} \cup CruiseFractions}
    \cup
    {MkOpts(One, t1, Num(MaxD), v0, vf, a0, Undef, Undef, Undef,
            "polynomial", Undef) :
        t1 \in EndTimes, v0 \in Velocities, vf \in {Undef, Zero},
        a0 \in {Undef, Num(MaxA)}}

\* the times the calls are made with: before t0, at the midpoint, at t1
CallTimes(s) ==
    IF s = Undef THEN {}
    ELSE {Sub(s.t0, One), Add(s.t0, Div(Sub(s.t1, s.t0), Two)), s.t1}

CallOps == EvalOps \cup {"getMaxAcceleration", "getMaxJerk"}

\* the constructor, then any sequence of calls of the six public methods
NextCalls ==
    \/ op = "init" /\ \E o \in CallOpts : Construct(o)
    \/ op # "init" /\ \E t \in CallTimes(seg) : Position(t)
    \/ op # "init" /\ \E t \in CallTimes(seg) : Velocity(t)
    \/ op # "init" /\ \E t \in CallTimes(seg) : Acceleration(t)
    \/ op # "init" /\ \E t \in CallTimes(seg) : Jerk(t)
    \/ op # "init" /\ GetMaxAcceleration
    \/ op # "init" /\ GetMaxJerk

SpecCalls == Init /\ [][NextCalls]_vars

(***************************************************************************)
(* Properties                                                              *)
(***************************************************************************)
\* options that satisfy every validation rule the specification states:
\* finite numbers, t0 < t1, distance, v0 and a supplied vf not negative, a
\* recognized type, no vf on the constant type, the four boundary derivatives
\* on the jerk-limited type and a supplied cruise fraction strictly in (0,1)
ValidParams(o) ==
    /\ IsFinite(o.startTime) /\ IsFinite(o.endTime) /\ Lt(o.startTime, o.endTime)
    /\ IsFinite(o.distance) /\ Ge(o.distance, Zero)
    /\ IsFinite(o.startVelocity) /\ Ge(o.startVelocity, Zero)
    /\ o.endVelocity # Undef => IsFinite(o.endVelocity) /\ Ge(o.endVelocity, Zero)
    /\ o.segmentType \in SegmentTypes
    /\ o.segmentType = "constant" => o.endVelocity = Undef
    /\ o.segmentType = "jerk-limited" =>
          /\ o.startAccel # Undef /\ o.endAccel # Undef
          /\ o.startJerk # Undef /\ o.endJerk # Undef
    /\ \A x \in {o.startAccel, o.endAccel, o.startJerk, o.endJerk} :
          x # Undef => IsFinite(x)
    /\ o.cruisePercentage # Undef =>
          Lt(Zero, o.cruisePercentage) /\ Lt(o.cruisePercentage, One)

\* C1: for each of the six shapes and every valid parameter set,
\* position(t0) is 0 and position(t1) is the distance.
C1_PositionEndpoints ==
    (op = "position" /\ ValidParams(opts)) =>
        /\ tq = seg.t0 => res = Zero
        /\ tq = seg.t1 => res = seg.d

\* C2: no evaluation of an instance the constructor returned throws.
C2_EvaluationNeverThrows ==
    op \in EvalOps => ~IsThrown(res)

\* C3: construction fails whenever segmentType is not one of the six
\* recognized tags, an unrecognized non-empty string included.
C3_UnrecognizedTypeRejected ==
    (op = "construct" /\ opts.segmentType \notin SegmentTypes) => err # NoError

\* C4: on a trapezoidal segment construction fails unless a supplied
\* cruisePercentage lies strictly inside (0,1); exactly 0 and exactly 1 are
\* rejected like the values below 0 and above 1.
C4_CruiseFractionStrictlyInside ==
    (/\ op = "construct"
     /\ opts.segmentType = "trapezoidal"
     /\ opts.cruisePercentage # Undef
     /\ ~(Lt(Zero, opts.cruisePercentage) /\ Lt(opts.cruisePercentage, One)))
        => err # NoError

\* C5: construction fails whenever startTime, endTime, distance or
\* startVelocity is missing, NaN, +Infinity or -Infinity.
C5_NonFiniteRejected ==
    (/\ op = "construct"
     /\ \E x \in {opts.startTime, opts.endTime, opts.distance,
                  opts.startVelocity} : ~IsFinite(x))
        => err # NoError

\* the range rules as the specification states them, and their errors
RangeRuleViolated(o) ==
    \/ IsNumber(o.startTime) /\ IsNumber(o.endTime) /\ Ge(o.startTime, o.endTime)
    \/ IsNumber(o.distance) /\ Lt(o.distance, Zero)
    \/ IsNumber(o.startVelocity) /\ Lt(o.startVelocity, Zero)
    \/ o.segmentType # "constant" /\ o.endVelocity # Undef
          /\ Lt(o.endVelocity, Zero)
    \/ o.segmentType = "constant" /\ o.endVelocity # Undef

RangeErrors ==
    {"startTime must be less than endTime",
     "distance must be non-negative",
     "startVelocity must be non-negative",
     "endVelocity should not be provided for constant segment",
     "endVelocity must be non-negative"}

C7_JerkLimitedDerivatives ==
    (op = "construct" /\ opts.segmentType = "jerk-limited") =>
        /\ (\E x \in {opts.startAccel, opts.endAccel, opts.startJerk,
                      opts.endJerk} : x = Undef) => err # NoError
        /\ ValidParams(opts) => err = NoError /\ seg # Undef

\* a jerk-limited call with negative boundary derivatives, accepted
C7_Witness ==
    /\ op = "construct"
    /\ opts.segmentType = "jerk-limited"
    /\ opts.startAccel # Undef /\ Lt(opts.startAccel, Zero)
    /\ opts.endAccel # Undef /\ Lt(opts.endAccel, Zero)
    /\ opts.startJerk # Undef /\ Lt(opts.startJerk, Zero)
    /\ opts.endJerk # Undef /\ Lt(opts.endJerk, Zero)
    /\ err = NoError
    /\ seg # Undef /\ Len(seg.jerkCoeffs) = 8

\* what the method called name returns for time t
ValueAt(name, s, t) ==
    CASE name = "position"     -> position(s, t)
      [] name = "velocity"     -> velocity(s, t)
      [] name = "acceleration" -> acceleration(s, t)
      [] name = "jerk"         -> jerk(s, t)

\* C8: on each of the six shapes, position, velocity, acceleration and jerk
\* at a time before t0 return what they return at t0, and at a time after t1
\* what they return at t1.
C8_Clamping ==
    (op \in EvalOps /\ seg.type \in SegmentTypes) =>
        /\ Lt(tq, seg.t0) => res = ValueAt(op, seg, seg.t0)
        /\ Gt(tq, seg.t1) => res = ValueAt(op, seg, seg.t1)

\* a position asked before t0 on a segment whose position is not constant
C8_Witness ==
    /\ op = "position" /\ seg.type \in SegmentTypes
    /\ Lt(tq, seg.t0)
    /\ IsFinite(res)
    /\ position(seg, seg.t1) # res

\* both boundary accelerations are supplied
Quintic(o) == o.startAccel # Undef /\ o.endAccel # Undef

\* C9: on valid finite options the fitted polynomial matches the boundary
\* conditions: the cubic (4 coefficients, startAccel or endAccel absent) in
\* position and velocity at t0 and t1, the quintic (6 coefficients, both
\* supplied) also in acceleration, the degree-7 polynomial of a jerk-limited
\* segment (8 coefficients) also in jerk.
C9_BoundaryMatching ==
    (/\ op \in EvalOps
     /\ ValidParams(opts)
     /\ seg.type \in {"polynomial", "jerk-limited"}) =>
        /\ seg.type = "jerk-limited" => Len(seg.jerkCoeffs) = 8
        /\ seg.type = "polynomial" =>
              Len(seg.coeffs) = IF Quintic(opts) THEN 6 ELSE 4
        /\ op = "position" =>
              /\ tq = seg.t0 => res = Zero
              /\ tq = seg.t1 => res = seg.d
        /\ op = "velocity" =>
              /\ tq = seg.t0 => res = seg.v0
              /\ tq = seg.t1 => res = seg.vf
        /\ (op = "acceleration"
              /\ (seg.type = "jerk-limited" \/ Quintic(opts))) =>
              /\ tq = seg.t0 => res = seg.a0
              /\ tq = seg.t1 => res = seg.af
        /\ (op = "jerk" /\ seg.type = "jerk-limited") =>
              /\ tq = seg.t0 => res = seg.j0
              /\ tq = seg.t1 => res = seg.jf

\* the jerk of a jerk-limited segment asked at t1, with an end jerk that is
\* not the default and a start jerk that differs from it
C9_Witness ==
    /\ op = "jerk" /\ seg.type = "jerk-limited"
    /\ ValidParams(opts)
    /\ tq = seg.t1
    /\ res = opts.endJerk /\ res # Zero /\ res # opts.startJerk

\* the determinant by expansion along the first row, the product M.x, and
\* the first columns of A being those of the identity
MinorOf(M, c) ==
    [r \in 1..Len(M) - 1 |->
        [k \in 1..Len(M) - 1 |-> M[r + 1][IF k < c THEN k ELSE k + 1]]]

RECURSIVE Det(_), DetFrom(_, _)
Det(M) == IF Len(M) = 1 THEN M[1][1] ELSE DetFrom(M, 1)
DetFrom(M, c) ==
    IF c > Len(M) THEN Zero
    ELSE Add(Mul(IF c % 2 = 1 THEN M[1][c] ELSE Neg(M[1][c]), Det(MinorOf(M, c))),
             DetFrom(M, c + 1))

Nonsingular(M) == Det(M) # Zero

RECURSIVE DotFrom(_, _, _)
DotFrom(row, x, k) ==
    IF k > Len(x) THEN Zero ELSE Add(Mul(row[k], x[k]), DotFrom(row, x, k + 1))

MatVec(M, x) == [r \in 1..Len(M) |-> DotFrom(M[r], x, 1)]

UnitColumns(A, upTo) ==
    \A k \in 1..Len(A) : \A c \in 1..upTo :
        A[k][c] = IF k = c THEN One ELSE Zero

\* C10: for a nonsingular n-by-n M, solveLinearSystem(M, b) returns a vector
\* x of length n with M.x = b.  At pivot column i the swap leaves in row i an
\* entry of column i that is largest in absolute value among the rows
\* k >= i, the normalization makes the pivot 1, the elimination clears the
\* column from every other row; at the end the left block is the identity
\* and the augmented column is what is returned.
C10_SolveLinearSystem ==
    (op \in {"swap", "normalize", "eliminate", "solved"} /\ Nonsingular(sM)) =>
        /\ op = "swap" =>
              /\ sp \in si..Len(sb)
              /\ \A k \in si..Len(sb) : Ge(Abs(sA[si][si]), Abs(sA[k][si]))
              /\ sA[si][si] # Zero
        /\ op = "normalize" => sA[si][si] = One
        /\ op = "eliminate" => UnitColumns(sA, si - 1)
        /\ op = "solved" =>
              /\ UnitColumns(sA, Len(sb))
              /\ sx = LastColumn(sA, Len(sb))
              /\ sx = solveLinearSystem(sM, sb)
              /\ Len(sx) = Len(sb)
              /\ MatVec(sM, sx) = sb

\* a 3x3 nonsingular system whose first pivot is 0, solved after a swap
C10_Witness ==
    /\ op = "solved"
    /\ Len(sb) = 3
    /\ Nonsingular(sM)
    /\ sM[1][1] = Zero
    /\ MatVec(sM, sx) = sb
    /\ sx # sb

\* C11: solveLinearSystem raises an error instead of returning a vector when
\* the system is singular (the pivot selected by the search is 0).
C11_SingularFails ==
    (op = "solved" /\ ~Nonsingular(sM)) => err # NoError

\* C12: a trapezoidal segment with a cruise fraction f in (0,1) has
\* t2 = f*T and t1 = t3 = (T - t2)/2, a vMax with
\* distance = t1/2*(v0 + vMax) + t2*vMax + t3/2*(vMax + vf), velocity vMax at
\* every t of the cruise window [t0 + t1, t0 + t1 + t2], velocity(t0) = v0
\* and velocity(t1) = vf.
C12_TrapezoidalCruise ==
    (/\ op \in EvalOps
     /\ seg.type = "trapezoidal"
     /\ opts.cruisePercentage # Undef
     /\ ValidParams(opts)) =>
        Local(trapezoidalParams(seg), LAMBDA p :
        Local(Sub(seg.t1, seg.t0), LAMBDA T :
            /\ p.t2 = Mul(opts.cruisePercentage, T)
            /\ p.t1 = Div(Sub(T, p.t2), Two)
            /\ p.t3 = p.t1
            /\ seg.d = Add(Add(Mul(Div(p.t1, Two), Add(seg.v0, p.vMax)),
                               Mul(p.t2, p.vMax)),
                           Mul(Div(p.t3, Two), Add(p.vMax, seg.vf)))
            /\ op = "velocity" =>
                  /\ tq = seg.t0 => res = seg.v0
                  /\ tq = seg.t1 => res = seg.vf
                  /\ (Ge(tq, Add(seg.t0, p.t1))
                        /\ Ge(Add(Add(seg.t0, p.t1), p.t2), tq)) =>
                        res = p.vMax))

\* the velocity asked at the end of the cruise window of a segment whose
\* boundary velocities differ from vMax and from each other
C12_Witness ==
    /\ op = "velocity"
    /\ seg.type = "trapezoidal"
    /\ opts.cruisePercentage # Undef
    /\ ValidParams(opts)
    /\ tq = Add(Add(seg.t0, trapezoidalParams(seg).t1), trapezoidalParams(seg).t2)
    /\ res = trapezoidalParams(seg).vMax
    /\ res # seg.v0 /\ res # seg.vf /\ seg.v0 # seg.vf

\* C13: on a triangular segment with v0 = vf = 0 the velocity at the
\* midpoint t0 + T/2 is 2*distance/T, velocity(t1) is 0, and acceleration(t)
\* is +4*distance/T^2 for every t with t - t0 < T/2 and -4*distance/T^2 for
\* every t with t - t0 >= T/2.
C13_Triangular ==
    (/\ op \in {"velocity", "acceleration"}
     /\ seg.type = "triangular"
     /\ ValidParams(opts)
     /\ seg.v0 = Zero /\ seg.vf = Zero) =>
        Local(Sub(seg.t1, seg.t0), LAMBDA T :
            /\ op = "velocity" =>
                  /\ tq = Add(seg.t0, Div(T, Two)) =>
                        res = Div(Mul(Two, seg.d), T)
                  /\ tq = seg.t1 => res = Zero
            /\ op = "acceleration" =>
                  res = IF Lt(Sub(tq, seg.t0), Div(T, Two))
                        THEN Div(Mul(Num(4), seg.d), Mul(T, T))
                        ELSE Neg(Div(Mul(Num(4), seg.d), Mul(T, T))))

\* the acceleration asked exactly at the midpoint of a segment that moves
C13_Witness ==
    /\ op = "acceleration"
    /\ seg.type = "triangular"
    /\ ValidParams(opts)
    /\ seg.v0 = Zero /\ seg.vf = Zero
    /\ Gt(seg.d, Zero)
    /\ tq = Add(seg.t0, Div(Sub(seg.t1, seg.t0), Two))
    /\ Lt(res, Zero)

\* C14: a constant segment stores a0 = af = 2*(distance - v0*T)/T^2,
\* acceleration(t) returns that value for every t, velocity(t1) is
\* v0 + a0*T and position(t1) is the distance.
C14_Constant ==
    (/\ op \in EvalOps
     /\ seg.type = "constant"
     /\ ValidParams(opts)) =>
        Local(Sub(seg.t1, seg.t0), LAMBDA T :
            /\ seg.a0 = Div(Mul(Two, Sub(seg.d, Mul(seg.v0, T))), Mul(T, T))
            /\ seg.af = seg.a0
            /\ op = "acceleration" => res = seg.a0
            /\ (op = "velocity" /\ tq = seg.t1) =>
                  res = Add(seg.v0, Mul(seg.a0, T))
            /\ (op = "position" /\ tq = seg.t1) => res = seg.d)

\* the position asked at t1 of a decelerating constant segment
C14_Witness ==
    /\ op = "position"
    /\ seg.type = "constant"
    /\ ValidParams(opts)
    /\ tq = seg.t1
    /\ res = seg.d
    /\ Lt(seg.a0, Zero)

\* the normalized time (t - t0)/T clamped into [0,1], from the options
ClampedFraction(o, t) ==
    Max(Zero, Min(One, Div(Sub(t, o.startTime), Sub(o.endTime, o.startTime))))

\* C15: on an s-curve segment, with x = clamp((t - t0)/T, 0, 1),
\* position is distance*(3x^2 - 2x^3), velocity distance*(6x - 6x^2)/T,
\* acceleration distance*(6 - 12x)/T^2 and jerk -12*distance/T^3 at every t;
\* the values are fixed by distance, t0, t1 and t alone, whatever v0, vf,
\* a0 and af are.
C15_SCurve ==
    (/\ op \in EvalOps
     /\ seg.type = "s-curve"
     /\ ValidParams(opts)) =>
        Local(Sub(opts.endTime, opts.startTime), LAMBDA T :
        Local(ClampedFraction(opts, tq), LAMBDA x :
        Local(opts.distance, LAMBDA d :
            /\ op = "position" =>
                  res = Mul(d, Sub(Mul(Num(3), Pow(x, 2)), Mul(Two, Pow(x, 3))))
            /\ op = "velocity" =>
                  res = Div(Mul(d, Sub(Mul(Num(6), x), Mul(Num(6), Pow(x, 2)))), T)
            /\ op = "acceleration" =>
                  res = Div(Mul(d, Sub(Num(6), Mul(Num(12), x))), Pow(T, 2))
            /\ op = "jerk" =>
                  res = Div(Mul(Num(-12), d), Pow(T, 3)))))

\* the velocity asked inside the interval of an s-curve segment that was
\* given a start velocity, an end velocity and boundary accelerations
C15_Witness ==
    /\ op = "velocity"
    /\ seg.type = "s-curve"
    /\ ValidParams(opts)
    /\ Gt(seg.v0, Zero) /\ seg.vf # seg.v0 /\ Gt(seg.a0, Zero)
    /\ Gt(tq, seg.t0) /\ Lt(tq, seg.t1)
    /\ Gt(Sub(seg.t1, seg.t0), One)
    /\ Gt(res, Zero)

\* what the method called name returns on instance s, t being its argument
CallValue(name, s, t) ==
    CASE name = "position"           -> position(s, t)
      [] name = "velocity"           -> velocity(s, t)
      [] name = "acceleration"       -> acceleration(s, t)
      [] name = "jerk"               -> jerk(s, t)
      [] name = "getMaxAcceleration" -> getMaxAcceleration(s)
      [] name = "getMaxJerk"         -> getMaxJerk(s)

SampleAbs(name, s, i) ==
    Abs(CallValue(name, s,
                  Add(s.t0, Mul(Frac(i, Steps), Sub(s.t1, s.t0)))))

StoredOr(x, dflt) == IF x = Undef THEN dflt ELSE x

Derivable(o) ==
    IsNumber(o.startTime) /\ IsNumber(o.endTime) /\ IsNumber(o.distance)
        /\ IsNumber(o.startVelocity)

C20_DegradedTriangular ==
    (op = "construct" /\ seg # Undef /\ seg.type = "trapezoidal"
        /\ seg.cruisePercentage = Undef) =>
        Local(Sub(seg.t1, seg.t0), LAMBDA T :
            Lt(TrapezoidalAutoCruise(T, seg.v0, seg.vf, seg.d), Zero) =>
                Local(trapezoidalParams(seg), LAMBDA p :
                    /\ p.t1 = Div(T, Two)
                    /\ p.t3 = Div(T, Two)
                    /\ p.t2 = Zero
                    /\ p.vMax = triangularParams(seg).vPeak
                    /\ p.vMax = Div(Mul(Two, seg.d), T)))

\* C21: every derived quantity is computed during construction and only read
\* afterwards: no evaluation call derives the triangular or trapezoidal
\* parameters or calls the solver.
C21_DerivedOnce ==
    op \in CallOps => derived = 0

\* the rules in the order the specification lists them: whether rule i is
\* violated by o, and the error that names it
RuleViolated(o, i) ==
    CASE i = 1  -> ~IsNumber(o.startTime) \/ ~IsNumber(o.endTime)
      [] i = 2  -> ~IsNumber(o.distance) \/ isNaN(o.distance)
      [] i = 3  -> ~IsNumber(o.startVelocity) \/ isNaN(o.startVelocity)
      [] i = 4  -> o.segmentType = ""
      [] i = 5  -> Ge(o.startTime, o.endTime)
      [] i = 6  -> Lt(o.distance, Zero)
      [] i = 7  -> Lt(o.startVelocity, Zero)
      [] i = 8  -> o.segmentType = "constant" /\ o.endVelocity # Undef
      [] i = 9  -> o.segmentType # "constant" /\ o.endVelocity # Undef
                     /\ Lt(o.endVelocity, Zero)
      [] i = 10 -> o.segmentType = "jerk-limited"
                     /\ (o.startAccel = Undef \/ o.endAccel = Undef)
      [] i = 11 -> o.segmentType = "jerk-limited"
                     /\ (o.startJerk = Undef \/ o.endJerk = Undef)
      [] i = 12 -> o.segmentType = "trapezoidal" /\ o.cruisePercentage # Undef
                     /\ (Lt(o.cruisePercentage, Zero) \/ Gt(o.cruisePercentage, One))

RuleError ==
    <<"startTime and endTime must be numbers",
      "distance must be a number",
      "startVelocity must be a number",
      "segmentType is required",
      "startTime must be less than endTime",
      "distance must be non-negative",
      "startVelocity must be non-negative",
      "endVelocity should not be provided for constant segment",
      "endVelocity must be non-negative",
      "startAccel and endAccel are required for jerk-limited segment",
      "startJerk and endJerk are required for jerk-limited segment",
      "cruisePercentage must be between 0 and 1 for trapezoidal segments">>

RuleCount == Len(RuleError)

\* the first rule from i on that o violates, 0 if it violates none
RECURSIVE FirstViolatedFrom(_, _)
FirstViolatedFrom(o, i) ==
    IF i > RuleCount THEN 0
    ELSE IF RuleViolated(o, i) THEN i
    ELSE FirstViolatedFrom(o, i + 1)

\* C22: the error a constructor call throws names the first rule, in the
\* order time types, distance type, startVelocity type, segmentType presence,
\* startTime < endTime, distance >= 0, startVelocity >= 0, endVelocity rules,
\* jerk-limited accelerations, jerk-limited jerks, trapezoidal cruise range,
\* that the options violate, and no error is thrown when none is violated; a
\* missing startTime is reported whatever else is invalid.
C22_ValidationOrder ==
    op = "construct" =>
        /\ Local(FirstViolatedFrom(opts, 1), LAMBDA i :
               err = IF i = 0 THEN NoError ELSE RuleError[i])
        /\ opts.startTime = Undef => err = RuleError[1]

\* a jerk-limited call missing all four boundary derivatives, nothing else
\* wrong, reporting the missing accelerations
C22_Witness ==
    /\ op = "construct"
    /\ opts.segmentType = "jerk-limited"
    /\ opts.startAccel = Undef /\ opts.endAccel = Undef
    /\ opts.startJerk = Undef /\ opts.endJerk = Undef
    /\ err = "startAccel and endAccel are required for jerk-limited segment"
    /\ seg = Undef

\* C23: on a triangular segment position and velocity are continuous at the
\* switch time: asked at t0 + T/2 (where the decelerating branch answers),
\* velocity returns the accelerating branch's v0 + a * T/2 and position its
\* v0 * T/2 + a * (T/2)^2 / 2; and velocity(t0) is v0.
C23_TriangularContinuous ==
    (seg # Undef /\ seg.type = "triangular" /\ op \in {"position", "velocity"}) =>
        Local(triangularParams(seg), LAMBDA p :
            /\ (op = "velocity" /\ tq = Add(seg.t0, p.t1)) =>
                   res = Add(seg.v0, Mul(p.a, p.t1))
            /\ (op = "position" /\ tq = Add(seg.t0, p.t1)) =>
                   res = Add(Mul(seg.v0, p.t1),
                             Mul(Mul(Mul(Half, p.a), p.t1), p.t1))
            /\ (op = "velocity" /\ tq = seg.t0) => res = seg.v0)

\* C24: a trapezoidal segment without cruiseFraction has phase durations t1,
\* t2, t3 that are finite (no division by zero), each >= 0, and sum to T, and
\* its position, velocity and acceleration are finite at every t.
C24_TrapezoidalAutoWellDefined ==
    (seg # Undef /\ seg.type = "trapezoidal" /\ seg.cruisePercentage = Undef) =>
        /\ Local(trapezoidalParams(seg), LAMBDA p :
               /\ IsFinite(p.t1) /\ IsFinite(p.t2) /\ IsFinite(p.t3)
               /\ Ge(p.t1, Zero) /\ Ge(p.t2, Zero) /\ Ge(p.t3, Zero)
               /\ Add(Add(p.t1, p.t2), p.t3) = Sub(seg.t1, seg.t0))
        /\ op \in {"position", "velocity", "acceleration"} => IsFinite(res)

\* the matrix the constructor builds for options o of a polynomial or
\* jerk-limited segment
BoundaryMatrix(o) ==
    Local(Sub(o.endTime, o.startTime), LAMBDA T :
        IF o.segmentType = "jerk-limited" THEN JerkLimitedMatrix(T)
        ELSE IF o.startAccel # Undef /\ o.endAccel # Undef THEN QuinticMatrix(T)
        ELSE CubicMatrix(T))

\* the coefficients the constructor stored
StoredCoeffs(s) == IF s.type = "jerk-limited" THEN s.jerkCoeffs ELSE s.coeffs

\* no pivot that solveLinearSystem selects from column i on is zero (the
\* pivot of a column is its largest entry in absolute value at or below the
\* diagonal, so it is zero exactly when the matrix is singular)
RECURSIVE PivotsNonzero(_, _)
PivotsNonzero(A, i) ==
    IF i > Len(A) THEN TRUE
    ELSE /\ SwapRows(A, i, MaxRow(A, i))[i][i] # Zero
         /\ PivotsNonzero(PivotStep(A, i), i + 1)

\* C25: for a polynomial or jerk-limited segment that passed validation with
\* T = t1 - t0 > 0, the boundary-condition matrix the constructor built is
\* nonsingular: solveLinearSystem selects a nonzero pivot in every column of
\* it, and every stored coefficient is a finite number.
C25_BoundaryMatricesRegular ==
    (op = "construct" /\ seg # Undef /\ seg.type \in {"polynomial", "jerk-limited"}
        /\ Gt(Sub(seg.t1, seg.t0), Zero)) =>
        Local(BoundaryMatrix(opts), LAMBDA M :
            /\ PivotsNonzero(Augment(M, [r \in 1..Len(M) |-> Zero]), 1)
            /\ \A k \in 1..Len(StoredCoeffs(seg)) : IsFinite(StoredCoeffs(seg)[k]))
====
